---- MODULE Spec2Model ----
(***************************************************************************)
(* Model of the request pipeline of the core package (Auth, AuthInternal,  *)
(* the session / callback / authorized / logout actions) and of the        *)
(* Next.js wrapper handleAuth, as a state machine: one server with its     *)
(* adapter store, one browser with its cookie jar, and other clients that  *)
(* send no session token, an undecodable one, or the one that was last     *)
(* signed out. A request is answered in one step and its response taken by *)
(* the client in the next. SpecSession, SpecPost, SpecCallback and         *)
(* SpecWrapper run the session endpoints, the POST dispatch, the sign-in   *)
(* flows and the wrapper; SpecEmail runs the e-mail flow over time.        *)
(* SpecParse and SpecProviders apply parseActionAndProviderId and          *)
(* renderPage.providers to their inputs, and SpecCalls interleaves the     *)
(* queries of concurrent useVerificationToken calls of four adapters.      *)
(***************************************************************************)
EXTENDS Integers, Sequences, FiniteSets, TLC

\* ------------------------------------------------------------------ bounds
MaxTime == 1        \* the clock runs 0..MaxTime
MaxId == 2          \* fresh identifiers (jti, session tokens) that may be drawn
SessionMaxAge == 1  \* options.session.maxAge, in clock ticks
UpdateAge == 1      \* options.session.updateAge, in clock ticks

\* ------------------------------------------------------------ configuration
Origin == "http://a"
BasePath == "/auth"
CallbackUrl == "http://a/cb"

Strategies == {"jwt", "database"}
ProviderTypes == {"oauth", "email", "credentials", "webauthn"}

NoUser == [id |-> 0, name |-> "", email |-> ""]
Users == {[id |-> 1, name |-> "Test User", email |-> "test@example.com"],
          [id |-> 2, name |-> "Bob Alice", email |-> "bob@alice.com"]}

FirstUser == CHOOSE u \in Users : u.id = 1

UserById(id) == IF \E u \in Users : u.id = id
                THEN CHOOSE u \in Users : u.id = id
                ELSE NoUser

\* ------------------------------------------------------------------ tokens
\* The value of the session cookie: absent, undecodable, a JWT, or the
\* sessionToken of an adapter session.
NoTok == [k |-> "none", sub |-> 0, name |-> "", email |-> "", iat |-> 0, exp |-> 0, jti |-> 0]
BadTok == [k |-> "bad", sub |-> 0, name |-> "", email |-> "", iat |-> 0, exp |-> 0, jti |-> 0]
DbTok(id) == [k |-> "db", sub |-> 0, name |-> "", email |-> "", iat |-> 0, exp |-> 0, jti |-> id]
DefaultToken(user) == [k |-> "payload", sub |-> user.id, name |-> user.name, email |-> user.email,
                       iat |-> 0, exp |-> 0, jti |-> 0]

\* jwt.encode: stamps iat, exp and a fresh jti on the payload.
JwtEncode(token, now, id) ==
  [token EXCEPT !.k = "jwt", !.iat = now, !.exp = now + SessionMaxAge, !.jti = id]

\* jwt.decode: the payload of a token this server encoded and that has not
\* expired; anything else makes it throw.
JwtDecode(tok, now) ==
  [ok |-> tok.k = "jwt" /\ tok.exp > now, payload |-> tok]

FromDate(maxAge, now) == now + maxAge

\* ----------------------------------------------------------------- cookies
SessionCookieName == "authjs.session-token"
CsrfCookieName == "authjs.csrf-token"

SessCookie(tok, expires) ==
  [name |-> SessionCookieName, tok |-> tok, clear |-> FALSE, expires |-> expires]
ClearSessCookie ==
  [name |-> SessionCookieName, tok |-> NoTok, clear |-> TRUE, expires |-> 0]
CsrfCookie == [name |-> CsrfCookieName, tok |-> NoTok, clear |-> FALSE, expires |-> 0]
ClearCsrfCookie == [name |-> CsrfCookieName, tok |-> NoTok, clear |-> TRUE, expires |-> 0]

\* SessionStore over the cookies of the request (one chunk).
StoreValue(reqTok) == reqTok
StoreClean(reqTok) == IF reqTok = NoTok THEN <<>> ELSE <<ClearSessCookie>>
StoreChunk(reqTok, newTok, expires) == <<SessCookie(newTok, expires)>>

\* ------------------------------------------------------------------- state
VARIABLES
  cfg,        \* the AuthConfig: [strategy]
  now,        \* Date.now()
  sessions,   \* adapter: sessions [sessionToken, userId, expires]
  vtokens,    \* adapter: verification tokens [identifier, token, expires]
  dbUsers,    \* adapter: ids of the users stored
  nextId,     \* identifiers drawn so far
  emails,     \* verification requests sent by the email provider
  jar,        \* the browser's session cookie [tok, expires]
  req,        \* the request handled last
  resp,       \* the response it got
  fx,         \* what handling it did, in order: callbacks, events, adapter and jwt calls
  signedIn,   \* the browser's last credentials sign-in: [user, status]
  ended,      \* the last POST logout that completed: [tok, clean] (the token it was
              \* given, and whether its try block ran to the end)
  mw,         \* the call of the Next.js wrapper handleAuth in progress, with its response
  arg,        \* the arguments of the pure function under study
  result,     \* what it returned or threw for them
  calls       \* the adapter calls in flight, one per concurrent caller

vars == <<cfg, now, sessions, vtokens, dbUsers, nextId, emails, jar, req, resp, fx,
          signedIn, ended, mw, arg, result, calls>>

\* What the request handlers leave alone.
aside == <<arg, result, calls>>

\* The server-side store as one value, threaded through the handlers.
Store == [sessions |-> sessions, vtokens |-> vtokens, dbUsers |-> dbUsers,
          nextId |-> nextId, emails |-> emails]

\* --------------------------------------------------------------- outcomes
NullBody == [k |-> "null"]
NoErr == [type |-> "", kind |-> "", auth |-> FALSE]
AuthErr(type) == [type |-> type, kind |-> "error", auth |-> TRUE]
PlainErr(name) == [type |-> name, kind |-> "", auth |-> FALSE]

\* A ResponseInternal returned by a handler, with the effects it had.
Ret(handler, status, body, redirect, cookies, f, st) ==
  [handler |-> handler, status |-> status, body |-> body, redirect |-> redirect,
   cookies |-> cookies, err |-> NoErr, fx |-> f, st |-> st]

\* An exception leaving a handler, with the effects it had before.
Thrown(handler, err, f, st) ==
  [handler |-> handler, status |-> 0, body |-> NullBody, redirect |-> "",
   cookies |-> <<>>, err |-> err, fx |-> f, st |-> st]

\* ---------------------------------------------------------- session action
\* The default callbacks.session: the session it is given, as it is.
DefaultSessionCallback(session) == session

SessionUser(token) ==
  [name |-> token.name, email |-> token.email, sub |-> token.sub,
   iat |-> token.iat, exp |-> token.exp, jti |-> token.jti]

HandleJWTSession(sessionToken, cookies, isUpdate, cbJwt, st, t) ==
  LET dec == JwtDecode(sessionToken, t)
      cleaned == cookies \o StoreClean(sessionToken)
  IN IF ~dec.ok
     THEN Ret("session", 0, NullBody, "", cleaned, <<"jwt.decode">>, st)
     ELSE IF cbJwt = "throw"
     THEN Ret("session", 0, NullBody, "", cleaned, <<"jwt.decode", "callbacks.jwt">>, st)
     ELSE IF cbJwt = "null"
     THEN Ret("session", 0, NullBody, "", cleaned, <<"jwt.decode", "callbacks.jwt">>, st)
     ELSE LET token == dec.payload
              newExpires == FromDate(SessionMaxAge, t)
              session == [k |-> "session", user |-> SessionUser(token), expires |-> newExpires]
              newToken == JwtEncode(token, t, st.nextId + 1)
          IN Ret("session", 0, DefaultSessionCallback(session), "",
                 cookies \o StoreChunk(sessionToken, newToken, newExpires),
                 <<"jwt.decode", "callbacks.jwt", "callbacks.session", "jwt.encode", "events.session">>,
                 [st EXCEPT !.nextId = @ + 1])

HandleDatabaseSession(sessionToken, cookies, isUpdate, adapterFails, st, t) ==
  LET found == {s \in st.sessions : s.sessionToken = sessionToken}
  IN IF adapterFails
     THEN Ret("session", 0, NullBody, "", cookies, <<"adapter.getSessionAndUser">>, st)
     ELSE IF found = {}
     THEN Ret("session", 0, NullBody, "", cookies \o StoreClean(sessionToken),
              <<"adapter.getSessionAndUser">>, st)
     ELSE LET s == CHOOSE x \in found : TRUE
          IN IF s.expires < t
             THEN Ret("session", 0, NullBody, "", cookies \o StoreClean(sessionToken),
                      <<"adapter.getSessionAndUser", "adapter.deleteSession">>,
                      [st EXCEPT !.sessions = @ \ {s}])
             ELSE LET due == s.expires - SessionMaxAge + UpdateAge
                      newExpires == FromDate(SessionMaxAge, t)
                      body == DefaultSessionCallback([k |-> "session", user |-> UserById(s.userId),
                                                      expires |-> s.expires])
                      cookie == SessCookie(sessionToken, newExpires)
                  IN IF due <= t
                     THEN Ret("session", 0, body, "", Append(cookies, cookie),
                              <<"adapter.getSessionAndUser", "adapter.updateSession",
                                "callbacks.session", "events.session">>,
                              [st EXCEPT !.sessions =
                                 (@ \ {s}) \cup {[s EXCEPT !.expires = newExpires]}])
                     ELSE Ret("session", 0, body, "", Append(cookies, cookie),
                              <<"adapter.getSessionAndUser", "callbacks.session",
                                "events.session">>, st)

\* session() without the early return for a request that has no token.
SessionNoEarlyReturn(strategy, sessionToken, cookies, isUpdate, cbJwt, adapterFails, st, t) ==
  IF strategy = "jwt"
  THEN HandleJWTSession(sessionToken, cookies, isUpdate, cbJwt, st, t)
  ELSE HandleDatabaseSession(sessionToken, cookies, isUpdate, adapterFails, st, t)

\* session(options, sessionStore, cookies, isUpdate, newSession)
Session(strategy, sessionToken, cookies, isUpdate, cbJwt, adapterFails, st, t) ==
  IF StoreValue(sessionToken) = NoTok
  THEN Ret("session", 0, NullBody, "", cookies, <<>>, st)
  ELSE IF strategy = "jwt"
  THEN HandleJWTSession(sessionToken, cookies, isUpdate, cbJwt, st, t)
  ELSE HandleDatabaseSession(sessionToken, cookies, isUpdate, adapterFails, st, t)

\* ----------------------------------------------------------- logout action
\* signout() that leaves the adapter session in place.
SignOutKeepsSession(strategy, sessionToken, cookies, adapterFails, st, t) ==
  IF StoreValue(sessionToken) = NoTok
  THEN Ret("logout", 0, NullBody, CallbackUrl, cookies, <<>>, st)
  ELSE Ret("logout", 0, NullBody, CallbackUrl, cookies \o StoreClean(sessionToken),
           IF strategy = "jwt" THEN <<"jwt.decode", "events.signout">>
           ELSE <<"adapter.deleteSession", "events.signout">>, st)

\* signout() with sessionStore.clean() moved into the try block.
SignOutCleanInTry(strategy, sessionToken, cookies, adapterFails, st, t) ==
  IF StoreValue(sessionToken) = NoTok
  THEN Ret("logout", 0, NullBody, CallbackUrl, cookies, <<>>, st)
  ELSE IF strategy = "jwt"
  THEN IF JwtDecode(sessionToken, t).ok
       THEN Ret("logout", 0, NullBody, CallbackUrl, cookies \o StoreClean(sessionToken),
                <<"jwt.decode", "events.signout">>, st)
       ELSE Ret("logout", 0, NullBody, CallbackUrl, cookies, <<"jwt.decode">>, st)
  ELSE IF adapterFails
       THEN Ret("logout", 0, NullBody, CallbackUrl, cookies, <<"adapter.deleteSession">>, st)
       ELSE Ret("logout", 0, NullBody, CallbackUrl, cookies \o StoreClean(sessionToken),
                <<"adapter.deleteSession", "events.signout">>,
                [st EXCEPT !.sessions = {s \in @ : s.sessionToken # sessionToken}])

\* signout(cookies, sessionStore, options), dispatched for POST logout.
SignOut(strategy, sessionToken, cookies, adapterFails, st, t) ==
  IF StoreValue(sessionToken) = NoTok
  THEN Ret("logout", 0, NullBody, CallbackUrl, cookies, <<>>, st)
  ELSE IF strategy = "jwt"
  THEN IF JwtDecode(sessionToken, t).ok
       THEN Ret("logout", 0, NullBody, CallbackUrl, cookies \o StoreClean(sessionToken),
                <<"jwt.decode", "events.signout">>, st)
       ELSE Ret("logout", 0, NullBody, CallbackUrl, cookies \o StoreClean(sessionToken),
                <<"jwt.decode">>, st)
  ELSE IF adapterFails
       THEN Ret("logout", 0, NullBody, CallbackUrl, cookies \o StoreClean(sessionToken),
                <<"adapter.deleteSession">>, st)
       ELSE Ret("logout", 0, NullBody, CallbackUrl, cookies \o StoreClean(sessionToken),
                <<"adapter.deleteSession", "events.signout">>,
                [st EXCEPT !.sessions = {s \in @ : s.sessionToken # sessionToken}])

\* --------------------------------------------------------- callback action
\* What a user callback (callbacks.authorized, callbacks.signin) does when
\* called: it returns true, false or a URL string, or it throws.
CallbackResults == {"true", "false", "/wrong", "http://b/wrong", "throw"}
IsUrlResult(r) == r \in {"/wrong", "http://b/wrong"}

\* The default callbacks.redirect: relative URLs are resolved against the
\* base URL, URLs of another origin are replaced by the base URL.
RedirectCallback(url, baseUrl) ==
  IF url = "/wrong" THEN baseUrl \o url ELSE baseUrl

\* handleAuthorized(params, config): `authorized` below is
\* config.callbacks.authorized itself, a function; the value it returns is
\* awaited and dropped.
HandleAuthorized(cbAuthorized) ==
  LET authorizedIsFalsy == FALSE
      authorizedIsString == FALSE
  IN IF cbAuthorized = "throw"
     THEN [err |-> AuthErr("AuthorizedCallbackError"), redirect |-> ""]
     ELSE IF authorizedIsFalsy
     THEN [err |-> AuthErr("AuthorizedCallbackError"), redirect |-> ""]
     ELSE IF ~authorizedIsString
     THEN [err |-> NoErr, redirect |-> ""]
     ELSE [err |-> NoErr, redirect |-> RedirectCallback(cbAuthorized, Origin)]

\* handleLoginOrRegister: stores the user when it is new and, under the
\* database strategy, creates the adapter session.
HandleLoginOrRegister(strategy, user, st, t) ==
  LET isNewUser == user.id \notin st.dbUsers
      st1 == [st EXCEPT !.dbUsers = @ \cup {user.id}]
      session == [sessionToken |-> DbTok(st.nextId + 1), userId |-> user.id,
                  expires |-> FromDate(SessionMaxAge, t)]
  IN IF strategy = "jwt"
     THEN [user |-> user, isNewUser |-> isNewUser, session |-> session, hasSession |-> FALSE,
           st |-> st1]
     ELSE [user |-> user, isNewUser |-> isNewUser, session |-> session, hasSession |-> TRUE,
           st |-> [st1 EXCEPT !.sessions = @ \cup {session}, !.nextId = @ + 1]]

\* The tail shared by the OAuth, email and WebAuthn callbacks once the user
\* is logged in: issue the session cookie, emit events.authorized, redirect.
IssueSession(handler, strategy, login, sessionToken, cookies, cbJwt, f, t) ==
  IF strategy = "jwt"
  THEN IF cbJwt = "throw"
       THEN Thrown(handler, AuthErr("CallbackRouteError"), Append(f, "callbacks.jwt"), login.st)
       ELSE IF cbJwt = "null"
       THEN Ret(handler, 0, NullBody, CallbackUrl, cookies \o StoreClean(sessionToken),
                f \o <<"callbacks.jwt", "events.authorized">>, login.st)
       ELSE LET newToken == JwtEncode(DefaultToken(login.user), t, login.st.nextId + 1)
            IN Ret(handler, 0, NullBody, CallbackUrl,
                   cookies \o StoreChunk(sessionToken, newToken, t + SessionMaxAge),
                   f \o <<"callbacks.jwt", "jwt.encode", "events.authorized">>,
                   [login.st EXCEPT !.nextId = @ + 1])
  ELSE Ret(handler, 0, NullBody, CallbackUrl,
           Append(cookies, SessCookie(login.session.sessionToken, login.session.expires)),
           Append(f, "events.authorized"), login.st)

\* handleOAuthCallback; ext is what the provider round trip (handleState,
\* handleOAuth) yields: a proxy redirect, an exception, or the user.
HandleOAuthCallback(strategy, ext, user, sessionToken, cookies, cbAuthorized, cbJwt, st, t) ==
  IF ext = "proxy"
  THEN Ret("callback", 0, NullBody, "http://proxy/cb", <<>>, <<>>, st)
  ELSE IF ext = "fail"
  THEN Thrown("callback", AuthErr("OAuthCallbackError"), <<"provider.oauth">>, st)
  ELSE LET f1 == <<"provider.oauth", "adapter.getUserByAccount", "callbacks.authorized">>
           auth == HandleAuthorized(cbAuthorized)
       IN IF auth.err # NoErr
          THEN Thrown("callback", auth.err, f1, st)
          ELSE IF auth.redirect # ""
          THEN Ret("callback", 0, NullBody, auth.redirect, cookies, f1, st)
          ELSE LET login == HandleLoginOrRegister(strategy, user, st, t)
               IN IssueSession("callback", strategy, login, sessionToken, cookies, cbJwt,
                               Append(f1, "handleLoginOrRegister"), t)

\* createHash(`${token}${secret}`)
CreateHash(token) == [sha256 |-> token]

\* handleEmailCallback with an adapter that looks the token up and leaves it stored.
HandleEmailCallbackPeek(strategy, qToken, qEmail, sessionToken, cookies, cbAuthorized, cbJwt, st, t) ==
  IF qToken = 0 \/ qEmail = ""
  THEN Thrown("callback", AuthErr("CallbackRouteError"), <<>>, st)
  ELSE LET invites == {v \in st.vtokens :
                         v.identifier = qEmail /\ v.token = CreateHash(qToken)}
           f1 == <<"adapter.useVerificationToken">>
           st1 == st
       IN IF invites = {} \/ (\E v \in invites : v.expires < t)
          THEN Thrown("callback", AuthErr("Verification"), f1, st1)
          ELSE LET known == {u \in Users : u.email = qEmail /\ u.id \in st.dbUsers}
                   fresh == {u \in Users : u.email = qEmail}
                   user == IF known # {} THEN CHOOSE u \in known : TRUE
                           ELSE CHOOSE u \in fresh : TRUE
                   f2 == f1 \o <<"adapter.getUserByEmail", "callbacks.authorized">>
                   auth == HandleAuthorized(cbAuthorized)
               IN IF auth.err # NoErr
                  THEN Thrown("callback", auth.err, f2, st1)
                  ELSE IF auth.redirect # ""
                  THEN Ret("callback", 0, NullBody, auth.redirect, cookies, f2, st1)
                  ELSE LET login == HandleLoginOrRegister(strategy, user, st1, t)
                       IN IssueSession("callback", strategy, login, sessionToken, cookies,
                                       cbJwt, Append(f2, "handleLoginOrRegister"), t)

\* handleEmailCallback; qToken and qEmail are the query parameters (0 and ""
\* when missing).
HandleEmailCallback(strategy, qToken, qEmail, sessionToken, cookies, cbAuthorized, cbJwt, st, t) ==
  IF qToken = 0 \/ qEmail = ""
  THEN Thrown("callback", AuthErr("CallbackRouteError"), <<>>, st)
  ELSE LET invites == {v \in st.vtokens :
                         v.identifier = qEmail /\ v.token = CreateHash(qToken)}
           f1 == <<"adapter.useVerificationToken">>
           st1 == [st EXCEPT !.vtokens = @ \ invites]
       IN IF invites = {} \/ (\E v \in invites : v.expires < t)
          THEN Thrown("callback", AuthErr("Verification"), f1, st1)
          ELSE LET known == {u \in Users : u.email = qEmail /\ u.id \in st.dbUsers}
                   fresh == {u \in Users : u.email = qEmail}
                   user == IF known # {} THEN CHOOSE u \in known : TRUE
                           ELSE CHOOSE u \in fresh : TRUE
                   f2 == f1 \o <<"adapter.getUserByEmail", "callbacks.authorized">>
                   auth == HandleAuthorized(cbAuthorized)
               IN IF auth.err # NoErr
                  THEN Thrown("callback", auth.err, f2, st1)
                  ELSE IF auth.redirect # ""
                  THEN Ret("callback", 0, NullBody, auth.redirect, cookies, f2, st1)
                  ELSE LET login == HandleLoginOrRegister(strategy, user, st1, t)
                       IN IssueSession("callback", strategy, login, sessionToken, cookies,
                                       cbJwt, Append(f2, "handleLoginOrRegister"), t)

\* handleCredentialsCallback that builds the token without the user
\* provider.authorize returned.
HandleCredentialsCallbackAnonymous(authorizeUser, sessionToken, cookies, cbAuthorized, cbJwt, st, t) ==
  IF authorizeUser = NoUser
  THEN Thrown("callback", [type |-> "CredentialsAuthorized", kind |-> "authorized", auth |-> TRUE],
              <<"provider.authorize">>, st)
  ELSE Ret("callback", 0, NullBody, CallbackUrl,
           cookies \o StoreChunk(sessionToken, JwtEncode(DefaultToken(FirstUser), t, st.nextId + 1),
                                 t + SessionMaxAge),
           <<"provider.authorize", "callbacks.authorized", "callbacks.jwt", "jwt.encode",
             "events.authorized">>,
           [st EXCEPT !.nextId = @ + 1])

\* handleCredentialsCallback; authorizeUser is what provider.authorize
\* returns (NoUser for null).
HandleCredentialsCallback(authorizeUser, sessionToken, cookies, cbAuthorized, cbJwt, st, t) ==
  IF authorizeUser = NoUser
  THEN Thrown("callback", [type |-> "CredentialsAuthorized", kind |-> "authorized", auth |-> TRUE],
              <<"provider.authorize">>, st)
  ELSE LET f1 == <<"provider.authorize", "callbacks.authorized">>
           auth == HandleAuthorized(cbAuthorized)
       IN IF auth.err # NoErr
          THEN Thrown("callback", auth.err, f1, st)
          ELSE IF auth.redirect # ""
          THEN Ret("callback", 0, NullBody, auth.redirect, cookies, f1, st)
          ELSE IF cbJwt = "throw"
          THEN Thrown("callback", AuthErr("CallbackRouteError"), Append(f1, "callbacks.jwt"), st)
          ELSE IF cbJwt = "null"
          THEN Ret("callback", 0, NullBody, CallbackUrl, cookies \o StoreClean(sessionToken),
                   f1 \o <<"callbacks.jwt", "events.authorized">>, st)
          ELSE LET newToken == JwtEncode(DefaultToken(authorizeUser), t, st.nextId + 1)
               IN Ret("callback", 0, NullBody, CallbackUrl,
                      cookies \o StoreChunk(sessionToken, newToken, t + SessionMaxAge),
                      f1 \o <<"callbacks.jwt", "jwt.encode", "events.authorized">>,
                      [st EXCEPT !.nextId = @ + 1])

\* handleWebAuthnCallback; ext tells whether body.action is valid and the
\* authenticator verified. The redirect handleAuthorized returns is not used.
HandleWebAuthnCallback(strategy, ext, user, sessionToken, cookies, cbAuthorized, cbJwt, st, t) ==
  IF ext = "fail"
  THEN Thrown("callback", AuthErr("AuthError"), <<>>, st)
  ELSE LET f1 == <<"provider.webauthn", "callbacks.authorized">>
           auth == HandleAuthorized(cbAuthorized)
       IN IF auth.err # NoErr
          THEN Thrown("callback", auth.err, f1, st)
          ELSE LET login == HandleLoginOrRegister(strategy, user, st, t)
               IN IssueSession("callback", strategy, login, sessionToken, cookies, cbJwt,
                               Append(f1, "handleLoginOrRegister"), t)

\* callback(request, options, sessionStore, cookies)
Callback(strategy, r, cookies, st, t) ==
  CASE r.ptype \in {"oauth", "oidc"} ->
         HandleOAuthCallback(strategy, r.ext, r.user, r.tok, cookies, r.cbAuthorized, r.cbJwt, st, t)
    [] r.ptype = "email" ->
         HandleEmailCallback(strategy, r.qToken, r.qEmail, r.tok, cookies, r.cbAuthorized, r.cbJwt, st, t)
    [] r.ptype = "credentials" ->
         HandleCredentialsCallback(r.user, r.tok, cookies, r.cbAuthorized, r.cbJwt, st, t)
    [] r.ptype = "webauthn" ->
         HandleWebAuthnCallback(strategy, r.ext, r.user, r.tok, cookies, r.cbAuthorized, r.cbJwt, st, t)
    [] OTHER -> Thrown("callback", AuthErr("InvalidProvider"), <<>>, st)


\* ------------------------------------------------------- authorized action
EmailMaxAge == 1    \* provider.maxAge of the email provider, in clock ticks

\* The `type` of the error class sendToken throws.
SignInCallbackErrorType == "AuthorizedCallbackError"

VerifyRequestUrl == Origin \o BasePath \o "/verify-request?provider=email&type=email"
AuthorizedUrl == Origin \o BasePath \o "/authorized"

\* sendToken that creates and sends the token before it asks callbacks.signin.
SendTokenEager(email, cbSignin, st, t) ==
  IF email = ""
  THEN Thrown("authorized", PlainErr("Error"), <<>>, st)
  ELSE LET f1 == <<"adapter.getUserByEmail", "provider.sendVerificationRequest",
                   "adapter.createVerificationToken", "callbacks.signin">>
           st1 == [st EXCEPT !.nextId = @ + 1,
                             !.emails = @ \cup {[identifier |-> email, token |-> st.nextId + 1]},
                             !.vtokens = @ \cup {[identifier |-> email,
                                                  token |-> CreateHash(st.nextId + 1),
                                                  expires |-> t + EmailMaxAge]}]
       IN IF cbSignin \in {"throw", "false"}
          THEN Thrown("authorized", AuthErr(SignInCallbackErrorType), f1, st1)
          ELSE IF IsUrlResult(cbSignin)
          THEN Ret("authorized", 0, NullBody, RedirectCallback(cbSignin, Origin), <<>>,
                   Append(f1, "callbacks.redirect"), st1)
          ELSE Ret("authorized", 0, NullBody, VerifyRequestUrl, <<>>, f1, st1)

\* sendToken(request, options): starts the e-mail flow.
SendToken(email, cbSignin, st, t) ==
  IF email = ""
  THEN Thrown("authorized", PlainErr("Error"), <<>>, st)
  ELSE LET f1 == <<"adapter.getUserByEmail", "callbacks.signin">>
       IN IF cbSignin \in {"throw", "false"}
          THEN Thrown("authorized", AuthErr(SignInCallbackErrorType), f1, st)
          ELSE IF IsUrlResult(cbSignin)
          THEN Ret("authorized", 0, NullBody, RedirectCallback(cbSignin, Origin), <<>>,
                   Append(f1, "callbacks.redirect"), st)
          ELSE LET token == st.nextId + 1
                   expires == t + EmailMaxAge
               IN Ret("authorized", 0, NullBody, VerifyRequestUrl, <<>>,
                      f1 \o <<"provider.sendVerificationRequest",
                              "adapter.createVerificationToken">>,
                      [st EXCEPT !.nextId = @ + 1,
                                 !.emails = @ \cup {[identifier |-> email, token |-> token]},
                                 !.vtokens = @ \cup {[identifier |-> email,
                                                      token |-> CreateHash(token),
                                                      expires |-> expires]}])

\* authorized(request, cookies, options), dispatched for POST authorized.
Authorized(r, cookies, st, t) ==
  CASE r.ptype = "none" -> Ret("authorized", 0, NullBody, AuthorizedUrl, cookies, <<>>, st)
    [] r.ptype \in {"oauth", "oidc"} ->
         Ret("authorized", 0, NullBody, "http://idp/authorize", cookies, <<"getAuthorizationUrl">>, st)
    [] r.ptype = "email" ->
         LET response == SendToken(r.qEmail, r.cbSignin, st, t)
         IN IF response.err # NoErr THEN response
            ELSE [response EXCEPT !.cookies = cookies]
    [] OTHER -> Ret("authorized", 0, NullBody, AuthorizedUrl, cookies, <<>>, st)

\* ------------------------------------------------------------ AuthInternal
\* isAuthAction(action)
actions == {"providers", "session", "csrf", "authorized", "logout", "callback",
            "verify-request", "error", "webauthn-options"}
\* isAuthAction with the action names of the AuthAction type (signin for authorized).
isAuthActionTyped(action) == action \in (actions \ {"authorized"}) \cup {"signin"}

isAuthAction(action) == action \in actions

\* The AuthAction type and the methods its documentation gives each action.
AuthAction == {"callback", "csrf", "error", "providers", "session", "signin", "signout",
               "verify-request", "webauthn-options"}
DocumentedMethods(action) ==
  IF action \in {"callback", "session", "signin", "signout"} THEN {"GET", "POST"}
  ELSE {"GET"}

\* The methods renderPage returns.
RenderMethods == {"csrf", "providers", "authorized", "signout", "verifyRequest", "error"}

\* init: options.csrfTokenVerified
CsrfTokenVerified(csrfDisabled, r) ==
  csrfDisabled \/ (r.method = "POST" /\ r.csrfOk)
\* skipCSRFCheck is passed with the configuration of each call of Auth.
CsrfDisabled(r) == r.skipCSRFCheck

\* validateCSRF(action, verified) throws when the token was not verified.
ValidateCSRF(verified) == verified

Page(name, cookies, st) == Ret(name, 200, [k |-> "html", page |-> name], "", cookies, <<>>, st)

\* renderPage.csrf answering 404 without touching the cookies.
RenderCsrfNoClear(skip, cookies, st) ==
  IF ~skip
  THEN Ret("csrf", 0, [k |-> "csrfToken"], "", cookies, <<>>, st)
  ELSE Ret("csrf", 404, NullBody, "", cookies, <<>>, st)

RenderCsrf(skip, cookies, st) ==
  IF ~skip
  THEN Ret("csrf", 0, [k |-> "csrfToken"], "", cookies, <<>>, st)
  ELSE Ret("csrf", 404, NullBody, "", Append(cookies, ClearCsrfCookie), <<>>, st)

MissingCsrf(st) == Thrown("none", AuthErr("MissingCSRF"), <<>>, st)
UnknownActionThrown(st) == Thrown("none", AuthErr("UnknownAction"), <<>>, st)
\* Calling a property that is undefined (a provider that is not configured,
\* a method renderPage does not return).
TypeErrorThrown(st) == Thrown("none", PlainErr("TypeError"), <<>>, st)

\* AuthInternal, `if (method === "GET")`
AuthInternalGet(config, r, cookies, st, t) ==
  CASE r.action = "callback" ->
         IF r.ptype = "none" THEN TypeErrorThrown(st)
         ELSE Callback(config.strategy, r, cookies, st, t)
    [] r.action = "csrf" -> RenderCsrf(CsrfDisabled(r), cookies, st)
    [] r.action = "error" -> Page("error", cookies, st)
    [] r.action = "providers" -> Ret("providers", 0, [k |-> "providers"], "", <<>>, <<>>, st)
    [] r.action = "session" ->
         Session(config.strategy, r.tok, cookies, FALSE, r.cbJwt, r.adapterFails, st, t)
    [] r.action = "authorized" ->
         IF r.ptype # "none" THEN Thrown("authorized", AuthErr("UnknownAction"), <<>>, st)
         ELSE Page("authorized", cookies, st)
    [] r.action = "logout" ->
         IF "logout" \in RenderMethods THEN Page("logout", cookies, st) ELSE TypeErrorThrown(st)
    [] r.action = "verify-request" -> Page("verify-request", cookies, st)
    [] r.action = "webauthn-options" ->
         Ret("webauthn-options", 200, [k |-> "options"], "", cookies, <<>>, st)
    [] OTHER -> UnknownActionThrown(st)

\* AuthInternal's POST switch with the validateCSRF call of `case "logout"`
\* left out.
AuthInternalPostNoLogoutCheck(config, r, cookies, csrfTokenVerified, st, t) ==
  CASE r.action = "callback" ->
         IF r.ptype = "none" THEN TypeErrorThrown(st)
         ELSE IF r.ptype = "credentials" /\ ~ValidateCSRF(csrfTokenVerified)
         THEN MissingCsrf(st)
         ELSE Callback(config.strategy, r, cookies, st, t)
    [] r.action = "session" ->
         IF ~ValidateCSRF(csrfTokenVerified) THEN MissingCsrf(st)
         ELSE Session(config.strategy, r.tok, cookies, TRUE, r.cbJwt, r.adapterFails, st, t)
    [] r.action = "authorized" ->
         IF ~ValidateCSRF(csrfTokenVerified) THEN MissingCsrf(st)
         ELSE Authorized(r, cookies, st, t)
    [] r.action = "logout" ->
         SignOut(config.strategy, r.tok, cookies, r.adapterFails, st, t)
    [] OTHER -> UnknownActionThrown(st)

\* AuthInternal, `else` (POST)
AuthInternalPost(config, r, cookies, csrfTokenVerified, st, t) ==
  CASE r.action = "callback" ->
         IF r.ptype = "none" THEN TypeErrorThrown(st)
         ELSE IF r.ptype = "credentials" /\ ~ValidateCSRF(csrfTokenVerified)
         THEN MissingCsrf(st)
         ELSE Callback(config.strategy, r, cookies, st, t)
    [] r.action = "session" ->
         IF ~ValidateCSRF(csrfTokenVerified) THEN MissingCsrf(st)
         ELSE Session(config.strategy, r.tok, cookies, TRUE, r.cbJwt, r.adapterFails, st, t)
    [] r.action = "authorized" ->
         IF ~ValidateCSRF(csrfTokenVerified) THEN MissingCsrf(st)
         ELSE Authorized(r, cookies, st, t)
    [] r.action = "logout" ->
         IF ~ValidateCSRF(csrfTokenVerified) THEN MissingCsrf(st)
         ELSE SignOut(config.strategy, r.tok, cookies, r.adapterFails, st, t)
    [] OTHER -> UnknownActionThrown(st)

AuthInternal(config, r, st, t) ==
  LET cookies == r.initCookies
      csrfTokenVerified == CsrfTokenVerified(CsrfDisabled(r), r)
  IN IF r.method = "GET"
     THEN AuthInternalGet(config, r, cookies, st, t)
     ELSE AuthInternalPost(config, r, cookies, csrfTokenVerified, st, t)

\* -------------------------------------------------------------------- Auth
\* The Response the client gets: toResponse of what AuthInternal returned,
\* or the error response built in the catch block.
ErrorUrl(err) ==
  LET type == IF err.auth THEN err.type ELSE "Configuration"
      path == IF err.auth THEN BasePath \o "/" \o err.kind ELSE BasePath \o "/"
  IN Origin \o path \o "?error=" \o type

\* What Auth makes of the outcome of AuthInternal: toResponse of what it
\* returned, or the response of the catch block for what it threw.
Respond(r, out) ==
  IF out.err = NoErr
  THEN [status |-> IF out.redirect # "" THEN 302
                   ELSE IF out.status = 0 THEN 200 ELSE out.status,
        body |-> out.body, redirect |-> out.redirect, cookies |-> out.cookies,
        error |-> "", handler |-> out.handler, fx |-> out.fx, st |-> out.st]
  ELSE IF r.method = "POST" /\ r.action = "session"
  THEN [status |-> 400, body |-> NullBody, redirect |-> "", cookies |-> <<>>,
        error |-> out.err.type, handler |-> out.handler, fx |-> out.fx, st |-> out.st]
  ELSE [status |-> 302, body |-> NullBody, redirect |-> ErrorUrl(out.err),
        cookies |-> <<>>, error |-> out.err.type, handler |-> out.handler,
        fx |-> out.fx, st |-> out.st]

Auth(config, r, st, t) ==
  IF ~isAuthAction(r.action)
  THEN [status |-> 400, body |-> NullBody, redirect |-> "", cookies |-> <<>>,
        error |-> "UnknownAction", handler |-> "none", fx |-> <<>>, st |-> st]
  ELSE LET out == AuthInternal(config, r, st, t)
       IN Respond(r, out)

\* ------------------------------------------------------------ the browser
NoJar == [tok |-> NoTok, expires |-> 0]

RECURSIVE ApplyCookies(_, _)
\* The jar after the Set-Cookie headers of a response, in order.
ApplyCookies(j, cookies) ==
  IF cookies = <<>> THEN j
  ELSE LET c == Head(cookies)
           j1 == IF c.name # SessionCookieName THEN j
                 ELSE IF c.clear THEN NoJar
                 ELSE [tok |-> c.tok, expires |-> c.expires]
       IN ApplyCookies(j1, Tail(cookies))

\* ---------------------------------------------------- the Next.js wrapper
AppCookie == [name |-> "app", tok |-> NoTok, clear |-> FALSE, expires |-> 0]
NoUrl == [pathname |-> "", search |-> "", callbackUrl |-> ""]
MwIdle == [kind |-> "idle"]

\* What callbacks.authorized of the wrapper yields: "none" (no callback
\* configured), "true", "false", "undefined", or a Response ("response", or
\* "redirect" when it has a Location).
IsResponse(a) == a \in {"response", "redirect"}
Falsy(a) == a \in {"false", "undefined"}

\* The parts of a Response the wrapper passes on.
MwResponse(status, location, cookies) ==
  [status |-> status, location |-> location, cookies |-> cookies, thrown |-> FALSE]
MwNext == MwResponse(200, NoUrl, <<>>)
MwThrown == [status |-> 500, location |-> NoUrl, cookies |-> <<>>, thrown |-> TRUE]

LoginPage(m) == IF m.pagesAuthorized # "" THEN m.pagesAuthorized ELSE BasePath \o "/login"
Href(m) == Origin \o m.path \o m.search

\* redirectToLoginPage without the comparison with the path of the request.
RedirectToLoginPageAlways(m) ==
  MwResponse(307, [pathname |-> LoginPage(m), search |-> "", callbackUrl |-> Href(m)], <<>>)

\* redirectToLoginPage(request, config)
RedirectToLoginPage(m) ==
  IF m.path # LoginPage(m)
  THEN MwResponse(307, [pathname |-> LoginPage(m), search |-> "", callbackUrl |-> Href(m)], <<>>)
  ELSE MwNext

\* The `else if (!authorized)` branch of the first handleAuth: the login URL
\* is a clone of the request URL, so it keeps the query of the request.
RedirectInline(m) ==
  IF m.path # LoginPage(m)
  THEN MwResponse(307, [pathname |-> LoginPage(m), search |-> m.search,
                        callbackUrl |-> Href(m)], <<>>)
  ELSE MwNext

\* The Response callbacks.authorized or the wrapped handler returned.
UserResponse(m) ==
  IF m.authorized = "redirect"
  THEN MwResponse(307, [pathname |-> "/elsewhere", search |-> "", callbackUrl |-> ""], m.own)
  ELSE IF m.authorized = "response" THEN MwResponse(401, NoUrl, m.own)
  ELSE IF m.handlerReturns THEN MwResponse(200, NoUrl, m.own)
  ELSE MwNext

\* handleAuthorizationResult; inner is the body of the second Auth call the
\* wrapped-handler branch makes with the request itself ("text" when the
\* request is no route of Auth and the 400 answer has no JSON body).
HandleAuthorizationResult(m, inner) ==
  IF IsResponse(m.authorized) THEN UserResponse(m)
  ELSE IF m.wrapped
  THEN IF inner \in {"text", "null"} THEN MwThrown ELSE UserResponse(m)
  ELSE IF Falsy(m.authorized) THEN RedirectToLoginPage(m)
  ELSE MwNext

\* createFinalResponse(response): the headers of the response are copied
\* into the new Response, then its Set-Cookie headers are appended to it.
CreateFinalResponse(response) ==
  IF response.thrown THEN response
  ELSE [response EXCEPT !.cookies = response.cookies \o response.cookies]

\* The first handleAuth, from the authorized callback on: the final Response
\* is built from `response`, whose Set-Cookie headers are then appended to
\* `response` itself.
HandleAuthInline(m) ==
  IF IsResponse(m.authorized) THEN UserResponse(m)
  ELSE IF m.wrapped THEN UserResponse(m)
  ELSE IF Falsy(m.authorized) THEN RedirectInline(m)
  ELSE MwNext

\* ------------------------------------------------------------------- Init
BaseReq ==
  [method |-> "GET", action |-> "none", ptype |-> "none", browser |-> FALSE, tok |-> NoTok,
   csrfOk |-> FALSE, skipCSRFCheck |-> FALSE, initCookies |-> <<>>, cbAuthorized |-> "true",
   cbSignin |-> "true", cbJwt |-> "token", user |-> NoUser, ext |-> "ok", qToken |-> 0,
   qEmail |-> "", adapterFails |-> FALSE]

NoResp == [status |-> 0, body |-> NullBody, redirect |-> "", cookies |-> <<>>, error |-> "",
           handler |-> "none"]

Idle == req.action = "none"

\* No function applied, no adapter call in flight.
NoArg == [k |-> "none"]

Init ==
  /\ cfg \in [strategy : Strategies]
  /\ now = 0
  /\ sessions = {}
  /\ vtokens = {}
  /\ dbUsers = {}
  /\ nextId = 0
  /\ emails = {}
  /\ jar = NoJar
  /\ req = BaseReq
  /\ resp = NoResp
  /\ fx = <<>>
  /\ signedIn = [user |-> NoUser, status |-> "none"]
  /\ ended = [tok |-> NoTok, clean |-> FALSE]
  /\ mw = MwIdle
  /\ arg = NoArg
  /\ result = NoArg
  /\ calls = <<>>

\* ---------------------------------------------------------------- actions
Did(f, label) == \E i \in DOMAIN f : f[i] = label

HasSessionCookie(cookies) ==
  \E i \in DOMAIN cookies : cookies[i].name = SessionCookieName

\* What the browser's last credentials sign-in is after request r got out.
SignedInAfter(r, out) ==
  IF ~r.browser THEN signedIn
  ELSE IF r.action = "callback" /\ r.ptype = "credentials" /\ out.error = ""
          /\ ApplyCookies(NoJar, out.cookies) # NoJar
  THEN [user |-> r.user, status |-> "in"]
  ELSE IF r.method = "POST" /\ r.action = "logout" /\ out.error = "" /\ signedIn.status = "in"
  THEN [signedIn EXCEPT !.status = "out"]
  ELSE IF r.action = "session" /\ out.body # NullBody THEN signedIn
  ELSE IF r.action = "session" /\ signedIn.status = "out" THEN signedIn
  ELSE IF HasSessionCookie(out.cookies) THEN [user |-> NoUser, status |-> "none"]
  ELSE signedIn

\* One request through Auth: the store and the record of the exchange after
\* the server answered it.
Handle(r) ==
  /\ Idle
  /\ \E out \in {Auth(cfg, r, Store, now)} :
     /\ out.st.nextId <= MaxId
     /\ req' = r
     /\ resp' = [status |-> out.status, body |-> out.body, redirect |-> out.redirect,
                 cookies |-> out.cookies, error |-> out.error, handler |-> out.handler]
     /\ fx' = out.fx
     /\ sessions' = out.st.sessions
     /\ vtokens' = out.st.vtokens
     /\ dbUsers' = out.st.dbUsers
     /\ nextId' = out.st.nextId
     /\ emails' = out.st.emails
     /\ signedIn' = SignedInAfter(r, out)
     /\ ended' = IF r.method = "POST" /\ r.action = "logout" /\ out.error = "" /\ r.tok # NoTok
                 THEN [tok |-> r.tok, clean |-> Did(out.fx, "events.signout")] ELSE ended
     /\ UNCHANGED <<cfg, now, jar, mw, aside>>

\* The client takes the response: the browser stores its cookies.
Receive ==
  /\ ~Idle
  /\ jar' = IF ~req.browser THEN jar
            ELSE IF mw # MwIdle THEN ApplyCookies(jar, mw.cookies)
            ELSE ApplyCookies(jar, resp.cookies)
  /\ req' = BaseReq
  /\ resp' = NoResp
  /\ fx' = <<>>
  /\ mw' = MwIdle
  /\ UNCHANGED <<cfg, now, sessions, vtokens, dbUsers, nextId, emails, signedIn, ended, aside>>

Tick ==
  /\ Idle
  /\ now < MaxTime
  /\ now' = now + 1
  /\ jar' = IF jar.tok # NoTok /\ jar.expires <= now + 1 THEN NoJar ELSE jar
  /\ signedIn' = IF jar.tok # NoTok /\ jar.expires <= now + 1 /\ signedIn.status = "in"
                 THEN [user |-> NoUser, status |-> "none"] ELSE signedIn
  /\ UNCHANGED <<cfg, sessions, vtokens, dbUsers, nextId, emails, req, resp, fx, ended, mw, aside>>

\* The session cookie a request carries: the browser sends its jar, another
\* client no token, an undecodable one, or the one that was signed out.
Carried(browser) == IF browser THEN {jar.tok} ELSE {ended.tok, NoTok, BadTok}

InitCookieChoices == {<<>>, <<CsrfCookie>>}

\* <<skipCSRFCheck, the token of the body matches the cookie>> of a POST
CsrfChoices == {<<FALSE, FALSE>>, <<FALSE, TRUE>>}
HelperCsrfChoices == CsrfChoices \cup {<<TRUE, FALSE>>}

\* The callbacks.jwt and adapter behaviours that matter under a strategy.
SessionInputs ==
  IF cfg.strategy = "jwt" THEN {<<"token", FALSE>>, <<"null", FALSE>>, <<"throw", FALSE>>}
  ELSE {<<"token", FALSE>>, <<"token", TRUE>>}

GetSession ==
  \E b \in BOOLEAN, ic \in InitCookieChoices, si \in SessionInputs :
    \E tk \in Carried(b) :
      Handle([BaseReq EXCEPT !.action = "session", !.browser = b, !.tok = tk,
                             !.initCookies = ic, !.cbJwt = si[1], !.adapterFails = si[2]])

PostSession ==
  \E b \in BOOLEAN, cs \in CsrfChoices, si \in SessionInputs :
    \E tk \in Carried(b) :
      /\ ~cs[2] => si = <<"token", FALSE>>
      /\ Handle([BaseReq EXCEPT !.method = "POST", !.action = "session", !.browser = b,
                                !.tok = tk, !.skipCSRFCheck = cs[1], !.csrfOk = cs[2],
                                !.cbJwt = si[1], !.adapterFails = si[2]])

PostLogout ==
  \E b \in BOOLEAN, cs \in HelperCsrfChoices, ic \in InitCookieChoices, af \in BOOLEAN :
    \E tk \in Carried(b) :
      /\ af => cfg.strategy = "database" /\ cs[2]
      /\ ic # <<>> => cs[2]
      /\ Handle([BaseReq EXCEPT !.method = "POST", !.action = "logout", !.browser = b,
                                !.tok = tk, !.skipCSRFCheck = cs[1], !.csrfOk = cs[2],
                                !.initCookies = ic, !.adapterFails = af])

AuthorizedResults == {"true", "false", "/wrong", "throw"}

\* The callback requests of one provider type, over the inputs its flow reads.
CallbackRequests(pt) ==
  LET base == [BaseReq EXCEPT !.action = "callback", !.ptype = pt]
      jwtResults == IF cfg.strategy = "jwt" THEN {"token", "null"} ELSE {"token"}
  IN CASE pt \in {"oauth", "webauthn"} ->
            {[base EXCEPT !.ext = e] : e \in {"fail", "proxy"}}
            \cup {[base EXCEPT !.user = FirstUser, !.cbAuthorized = a] : a \in AuthorizedResults}
            \cup {[base EXCEPT !.user = FirstUser, !.cbJwt = j] : j \in jwtResults}
       [] pt = "email" ->
            {[base EXCEPT !.qToken = q[1], !.qEmail = q[2], !.cbAuthorized = a] :
               q \in {<<0, "">>} \cup {<<e.token, e.identifier>> : e \in emails}
                      \cup {<<MaxId + 1, FirstUser.email>>},
               a \in AuthorizedResults}
       [] pt = "credentials" ->
            {[base EXCEPT !.user = u] : u \in Users \cup {NoUser}}
            \cup {[base EXCEPT !.user = FirstUser, !.cbAuthorized = a] : a \in AuthorizedResults}
            \cup {[base EXCEPT !.user = FirstUser, !.cbJwt = j] : j \in {"null", "throw"}}
       [] OTHER -> {base}

GetCallback ==
  \E pt \in ProviderTypes \cup {"none"} :
    \E r \in CallbackRequests(pt) :
      Handle([r EXCEPT !.browser = TRUE, !.tok = jar.tok])

PostCallback ==
  \E pt \in ProviderTypes \cup {"none"}, cs \in CsrfChoices :
    \E r \in CallbackRequests(pt) :
      /\ cs[2] \/ r = [BaseReq EXCEPT !.action = "callback", !.ptype = pt, !.user = FirstUser]
               \/ pt \in {"email", "none"}
      /\ Handle([r EXCEPT !.method = "POST", !.browser = TRUE, !.tok = jar.tok,
                          !.skipCSRFCheck = cs[1], !.csrfOk = cs[2]])

PostAuthorized ==
  \E pt \in {"none", "oauth", "email", "credentials"}, cs \in CsrfChoices,
     em \in {"", FirstUser.email}, sg \in CallbackResults :
    /\ pt # "email" => (em = "" /\ sg = "true")
    /\ (em = "" \/ ~cs[2]) => sg = "true"
    /\ Handle([BaseReq EXCEPT !.method = "POST", !.action = "authorized", !.ptype = pt,
                              !.browser = TRUE, !.tok = jar.tok,
                              !.skipCSRFCheck = cs[1], !.csrfOk = cs[2],
                              !.qEmail = em, !.cbSignin = sg])

GetPage ==
  \E a \in {"csrf", "error", "providers", "authorized", "logout", "verify-request",
            "webauthn-options"},
     ic \in InitCookieChoices, pt \in {"none", "oauth"}, skip \in BOOLEAN :
    /\ pt # "none" => a = "authorized"
    /\ skip => a = "csrf"
    /\ Handle([BaseReq EXCEPT !.action = a, !.initCookies = ic, !.ptype = pt,
                              !.skipCSRFCheck = skip, !.browser = TRUE, !.tok = jar.tok])

\* Every other pair of a method and an action name; the server-side helpers
\* of the Next.js package send theirs with skipCSRFCheck.
OtherRequest ==
  \E m \in {"GET", "POST"}, a \in actions \cup AuthAction, skip \in BOOLEAN :
    /\ \/ ~isAuthAction(a)
       \/ m = "POST" /\ a \notin {"callback", "session", "authorized", "logout"}
    /\ skip => m = "POST"
    /\ Handle([BaseReq EXCEPT !.method = m, !.action = a, !.skipCSRFCheck = skip,
                              !.browser = TRUE, !.tok = jar.tok])

\* A request through the wrapper: the session lookup (a GET session through
\* Auth with the cookies of the request), then the response of the wrapper.
MwCalls ==
  LET base == [kind |-> "handleAuth", inline |-> FALSE, path |-> "/dashboard", search |-> "",
               pagesAuthorized |-> "", authorized |-> "true", wrapped |-> FALSE,
               handlerReturns |-> FALSE, own |-> <<>>]
  IN {[base EXCEPT !.path = p, !.pagesAuthorized = pg, !.authorized = a] :
        p \in {"/dashboard", "/login", BasePath \o "/login"}, pg \in {"", "/login"},
        a \in {"none", "true", "false", "undefined"}}
     \cup {[base EXCEPT !.search = "?x=1", !.authorized = a] : a \in {"true", "false"}}
     \cup {[base EXCEPT !.authorized = a, !.own = o] :
             a \in {"response", "redirect"}, o \in {<<>>, <<AppCookie>>}}
     \cup {[base EXCEPT !.wrapped = TRUE, !.authorized = a, !.handlerReturns = h, !.own = o,
                        !.path = p] :
             a \in {"true", "false"}, h \in BOOLEAN, o \in {<<>>, <<AppCookie>>},
             p \in {"/dashboard", BasePath \o "/session"}}

\* The GET session request getSession sends through Auth.
SessionLookup == [BaseReq EXCEPT !.action = "session", !.browser = TRUE, !.tok = jar.tok]

MwHandle(m, out, final) ==
  /\ Idle
  /\ out.st.nextId <= MaxId
  /\ req' = SessionLookup
  /\ resp' = [status |-> out.status, body |-> out.body, redirect |-> out.redirect,
              cookies |-> out.cookies, error |-> out.error, handler |-> out.handler]
  /\ fx' = out.fx
  /\ sessions' = out.st.sessions
  /\ nextId' = out.st.nextId
  /\ mw' = [call |-> m, status |-> final.status, location |-> final.location,
            cookies |-> final.cookies, thrown |-> final.thrown, kind |-> "handleAuth"]
  /\ UNCHANGED <<cfg, now, vtokens, dbUsers, emails, jar, signedIn, ended, aside>>

\* The body of the second call of Auth, as handleAuthorizationResult reads
\* it: not JSON when the request is no route of Auth.
InnerBody(m, second) ==
  IF ~m.wrapped \/ IsResponse(m.authorized) THEN "unused"
  ELSE IF m.path # BasePath \o "/session" THEN "text"
  ELSE IF second.body = NullBody THEN "null" ELSE "session"

\* handleAuth as exported (authorize, handleAuthorizationResult,
\* createFinalResponse).
HandleAuth ==
  \E m \in MwCalls :
    /\ Idle
    /\ \E sessionResponse \in {Auth(cfg, SessionLookup, Store, now)} :
      \E second \in {IF m.wrapped /\ ~IsResponse(m.authorized) /\ m.path = BasePath \o "/session"
                     THEN Auth(cfg, SessionLookup, sessionResponse.st, now)
                     ELSE sessionResponse} :
        MwHandle(m, [second EXCEPT !.cookies = sessionResponse.cookies,
                                   !.body = sessionResponse.body,
                                   !.fx = IF second = sessionResponse THEN @
                                          ELSE sessionResponse.fx \o @],
                 CreateFinalResponse(HandleAuthorizationResult(m, InnerBody(m, second))))

\* The first handleAuth of the wrapper.
HandleAuthFirst ==
  \E m \in MwCalls :
    /\ Idle
    /\ m.path # BasePath \o "/session"
    /\ \E sessionResponse \in {Auth(cfg, SessionLookup, Store, now)} :
         MwHandle([m EXCEPT !.inline = TRUE], sessionResponse, HandleAuthInline(m))

\* A sign-in with the default callbacks: credentials, or an OAuth provider.
SignIn ==
  \/ \E u \in Users :
       Handle([BaseReq EXCEPT !.method = "POST", !.action = "callback", !.ptype = "credentials",
                              !.browser = TRUE, !.tok = jar.tok, !.csrfOk = TRUE, !.user = u])
  \/ Handle([BaseReq EXCEPT !.action = "callback", !.ptype = "oauth", !.browser = TRUE,
                            !.tok = jar.tok, !.user = FirstUser])

\* The session endpoints and the pages, as a signed-in browser and other
\* clients use them.
NextSession ==
  \/ Tick
  \/ Receive
  \/ SignIn
  \/ GetSession
  \/ PostSession
  \/ PostLogout
  \/ GetPage
  \/ OtherRequest

SpecSession == Init /\ [][NextSession]_vars

\* The sign-in flows: the authorized action and the callbacks of every
\* provider type.
NextCallback ==
  \/ Receive
  \/ GetCallback
  \/ PostCallback
  \/ PostAuthorized

\* Every POST the dispatcher handles.
NextPost ==
  \/ Receive
  \/ PostCallback
  \/ PostAuthorized
  \/ PostSession
  \/ PostLogout

SpecPost == Init /\ [][NextPost]_vars

SpecCallback == Init /\ [][NextCallback]_vars

\* The Next.js wrapper in front of a browser that signs in.
NextWrapper ==
  \/ Tick
  \/ Receive
  \/ SignIn
  \/ HandleAuth
  \/ HandleAuthFirst

SpecWrapper == Init /\ [][NextWrapper]_vars

\* ------------------------------------------------- parsing the request path
\* A path is the sequence of its segments: "/api/auth/csrf" is <<"api", "auth", "csrf">>.
MaxSegments == 5
Segments == {"api", "auth", "authorized", "authorizedn", "github", "session"}
BasePaths == {<<"auth">>, <<"api", "auth">>}

RECURSIVE PathsUpTo(_)
PathsUpTo(n) ==
  IF n = 0 THEN {<<>>}
  ELSE LET shorter == PathsUpTo(n - 1)
       IN shorter \cup {Append(p, s) : p \in {q \in shorter : Len(q) = n - 1}, s \in Segments}

\* The paths and base paths of the url-parsing test, with what it expects of each.
UrlParsingTest ==
  { [pathname |-> <<"auuth", "authorized">>, base |-> <<"auth">>, ok |-> FALSE,
     action |-> "", providerId |-> ""],
    [pathname |-> <<"api", "auth", "authorized">>, base |-> <<"auth">>, ok |-> FALSE,
     action |-> "", providerId |-> ""],
    [pathname |-> <<"auth", "auth", "authorized", "github">>, base |-> <<"auth">>,
     ok |-> FALSE, action |-> "", providerId |-> ""],
    [pathname |-> <<"api", "auth", "authorizedn">>, base |-> <<"api", "auth">>,
     ok |-> FALSE, action |-> "", providerId |-> ""],
    [pathname |-> <<"api", "auth", "authorizedn", "github">>, base |-> <<"api", "auth">>,
     ok |-> FALSE, action |-> "", providerId |-> ""],
    [pathname |-> <<"api", "auth", "authorized", "github">>, base |-> <<"api", "auth">>,
     ok |-> TRUE, action |-> "authorized", providerId |-> "github"],
    [pathname |-> <<"api", "auth", "authorized", "github", "github">>,
     base |-> <<"api", "auth">>, ok |-> FALSE, action |-> "", providerId |-> ""],
    [pathname |-> <<"api", "auth", "authorized", "api", "auth", "authorized", "github">>,
     base |-> <<"api", "auth">>, ok |-> FALSE, action |-> "", providerId |-> ""],
    [pathname |-> <<"auth", "authorized", "auth0">>, base |-> <<"auth">>, ok |-> TRUE,
     action |-> "authorized", providerId |-> "auth0"] }

\* providerId of a path that ends with the action.
NoProviderId == ""

UnknownActionAt(pathname) ==
  [ok |-> FALSE, error |-> "UnknownAction",
   message |-> <<"Cannot parse action at", pathname>>,
   action |-> "", providerId |-> NoProviderId]

StartsWith(pathname, base) ==
  /\ Len(pathname) >= Len(base)
  /\ SubSeq(pathname, 1, Len(base)) = base

ParseActionAndProviderId(pathname, base) ==
  IF ~StartsWith(pathname, base) THEN UnknownActionAt(pathname)
  ELSE LET rest == SubSeq(pathname, Len(base) + 1, Len(pathname))
       IN IF Len(rest) \notin {1, 2} THEN UnknownActionAt(pathname)
          ELSE IF ~isAuthAction(rest[1]) THEN UnknownActionAt(pathname)
          ELSE [ok |-> TRUE, error |-> "", message |-> <<>>, action |-> rest[1],
                providerId |-> IF Len(rest) = 2 THEN rest[2] ELSE NoProviderId]

\* The server and the browser before any request (the stored verification tokens
\* apart).
AtRest ==
  /\ cfg = [strategy |-> "jwt"]
  /\ now = 0
  /\ sessions = {}
  /\ dbUsers = {}
  /\ nextId = 0
  /\ emails = {}
  /\ jar = NoJar
  /\ req = BaseReq
  /\ resp = NoResp
  /\ fx = <<>>
  /\ signedIn = [user |-> NoUser, status |-> "none"]
  /\ ended = [tok |-> NoTok, clean |-> FALSE]
  /\ mw = MwIdle

PathInputs ==
  [pathname : PathsUpTo(MaxSegments), base : BasePaths]
    \cup {[pathname |-> c.pathname, base |-> c.base] : c \in UrlParsingTest}

InitParse ==
  /\ AtRest
  /\ vtokens = {}
  /\ arg \in PathInputs
  /\ result = NoArg
  /\ calls = <<>>

ParsePath ==
  /\ result = NoArg
  /\ result' = ParseActionAndProviderId(arg.pathname, arg.base)
  /\ UNCHANGED <<cfg, now, sessions, vtokens, dbUsers, nextId, emails, jar, req, resp, fx,
                 signedIn, ended, mw, arg, calls>>

NextParse == ParsePath

SpecParse == InitParse /\ [][NextParse]_vars

\* --------------------------------------------------- the providers endpoint
MaxProviders == 2
\* Reading a property that an object does not have.
Undefined == "undefined"
Get(o, key) == IF key \in DOMAIN o THEN o[key] ELSE Undefined

ProviderIds == {"github", "google", "sendgrid"}
ProviderName(id) ==
  IF id = "github" THEN "GitHub" ELSE IF id = "google" THEN "Google" ELSE "SendGrid"
ProviderTypeOf(id) == IF id = "sendgrid" THEN "email" ELSE "oauth"
SigninUrl(id) ==
  IF id = "github" THEN "http://a/auth/signin/github"
  ELSE IF id = "google" THEN "http://a/auth/signin/google"
  ELSE "http://a/auth/signin/sendgrid"
ProviderCallbackUrl(id) ==
  IF id = "github" THEN "http://a/auth/callback/github"
  ELSE IF id = "google" THEN "http://a/auth/callback/google"
  ELSE "http://a/auth/callback/sendgrid"

\* A provider as configured: its id and the options that stay on the server.
ProviderConfigs ==
  [id : ProviderIds, clientSecret : {"secret1", "secret2"},
   authorization : {"scope1", "scope2"}]

\* InternalProvider: the configured provider with signinUrl and callbackUrl.
InternalProvider(c) ==
  [id |-> c.id, name |-> ProviderName(c.id), type |-> ProviderTypeOf(c.id),
   clientId |-> "client", clientSecret |-> c.clientSecret,
   authorization |-> c.authorization,
   signinUrl |-> SigninUrl(c.id), callbackUrl |-> ProviderCallbackUrl(c.id)]

\* Response.json: properties whose value is undefined are left out.
ToJson(o) == [k \in {j \in DOMAIN o : o[j] # Undefined} |-> o[k]]

\* renderPage.providers: the reduce over options.providers, then the JSON body.
RECURSIVE ProvidersReduce(_, _)
ProvidersReduce(providers, acc) ==
  IF providers = <<>> THEN acc
  ELSE LET p == Head(providers)
           entry == [id |-> Get(p, "id"), name |-> Get(p, "name"),
                     type |-> Get(p, "type"),
                     authorizedUrl |-> Get(p, "authorizedUrl"),
                     callbackUrl |-> Get(p, "callbackUrl")]
       IN ProvidersReduce(Tail(providers),
            [i \in DOMAIN acc \cup {p.id} |-> IF i = p.id THEN entry ELSE acc[i]])

RenderProviders(providers) ==
  LET body == ProvidersReduce(providers, <<>>)
  IN [i \in DOMAIN body |-> ToJson(body[i])]

\* The provider lists of a configuration: up to MaxProviders providers, ids distinct.
RECURSIVE ProviderLists(_)
ProviderLists(n) ==
  IF n = 0 THEN {<<>>}
  ELSE LET shorter == ProviderLists(n - 1)
       IN shorter \cup
          {Append(l, c) : l \in {q \in shorter : Len(q) = n - 1},
                          c \in ProviderConfigs}

DistinctIds(l) == \A i, j \in 1..Len(l) : l[i].id = l[j].id => i = j

OptionsProviders(l) == [i \in 1..Len(l) |-> InternalProvider(l[i])]

\* Two configurations, each asked for its providers.
InitProviders ==
  /\ AtRest
  /\ vtokens = {}
  /\ arg \in [a : {l \in ProviderLists(MaxProviders) : DistinctIds(l)},
               b : {l \in ProviderLists(MaxProviders) : DistinctIds(l)}]
  /\ result = NoArg
  /\ calls = <<>>

GetProviders ==
  /\ result = NoArg
  /\ result' = [a |-> RenderProviders(OptionsProviders(arg.a)),
                b |-> RenderProviders(OptionsProviders(arg.b))]
  /\ UNCHANGED <<cfg, now, sessions, vtokens, dbUsers, nextId, emails, jar, req, resp, fx,
                 signedIn, ended, mw, arg, calls>>

NextProviders == GetProviders

SpecProviders == InitProviders /\ [][NextProviders]_vars

\* ------------------------------------------------------- the e-mail flow
\* Time passes, until a token e-mailed at the start can have expired.
Elapse ==
  /\ Idle
  /\ now <= EmailMaxAge
  /\ now' = now + 1
  /\ jar' = IF jar.tok # NoTok /\ jar.expires <= now + 1 THEN NoJar ELSE jar
  /\ signedIn' = IF jar.tok # NoTok /\ jar.expires <= now + 1 /\ signedIn.status = "in"
                 THEN [user |-> NoUser, status |-> "none"] ELSE signedIn
  /\ UNCHANGED <<cfg, sessions, vtokens, dbUsers, nextId, emails, req, resp, fx, ended, mw, aside>>

\* The link of an e-mail opened, or a callback URL of the e-mail provider made up.
GetEmailCallback ==
  \E r \in CallbackRequests("email") :
    Handle([r EXCEPT !.browser = TRUE, !.tok = jar.tok])

NextEmail ==
  \/ Receive
  \/ Elapse
  \/ PostAuthorized
  \/ GetEmailCallback

SpecEmail == Init /\ [][NextEmail]_vars

\* ------------------------------------- useVerificationToken, concurrently
MaxCallers == 2
Callers == 1..MaxCallers
Adapters == {"drizzle-mysql", "fauna", "prisma", "dgraph"}
Null == [k |-> "null"]

\* The verification tokens that may be stored, and the ones asked for.
StoredTokens ==
  {[identifier |-> FirstUser.email, token |-> CreateHash(n), expires |-> EmailMaxAge] :
     n \in 1..2}
Matches(params) ==
  {v \in vtokens : v.identifier = params.identifier /\ v.token = params.token}
First(found) == IF found = {} THEN Null ELSE CHOOSE v \in found : TRUE

\* A call before its first query.
Called(params) == [pc |-> "called", params |-> params, read |-> Null, returned |-> Null]

InitCalls ==
  /\ AtRest
  /\ arg \in [adapter : Adapters]
  /\ result = NoArg
  /\ \E stored \in SUBSET StoredTokens :
       /\ vtokens = stored
       /\ calls \in [Callers -> {Called([identifier |-> v.identifier, token |-> v.token]) :
                                    v \in StoredTokens}]

Quiet == UNCHANGED <<cfg, now, sessions, dbUsers, nextId, emails, jar, req, resp, fx,
                     signedIn, ended, mw, arg, result>>

\* Drizzle MySQL: the select, res[0] ?? null.
DrizzleSelect(c) ==
  /\ arg.adapter = "drizzle-mysql"
  /\ calls[c].pc = "called"
  /\ calls' = [calls EXCEPT ![c].pc = "selected",
                            ![c].read = First(Matches(calls[c].params))]
  /\ UNCHANGED vtokens
  /\ Quiet

\* Drizzle MySQL: the delete, then return deletedToken.
DrizzleDelete(c) ==
  /\ arg.adapter = "drizzle-mysql"
  /\ calls[c].pc = "selected"
  /\ vtokens' = vtokens \ Matches(calls[c].params)
  /\ calls' = [calls EXCEPT ![c].pc = "returned", ![c].returned = calls[c].read]
  /\ Quiet

\* Fauna: q(Get(Match(...))), null when nothing is found.
FaunaGet(c) ==
  /\ arg.adapter = "fauna"
  /\ calls[c].pc = "called"
  /\ LET found == First(Matches(calls[c].params))
     IN calls' = [calls EXCEPT ![c].pc = IF found = Null THEN "returned" ELSE "got",
                               ![c].read = found]
  /\ UNCHANGED vtokens
  /\ Quiet

\* Fauna: q(Delete(Select("ref", object))), where q turns NotFound into null, then
\* return verificationToken.
FaunaDelete(c) ==
  /\ arg.adapter = "fauna"
  /\ calls[c].pc = "got"
  /\ vtokens' = vtokens \ Matches(calls[c].params)
  /\ calls' = [calls EXCEPT ![c].pc = "returned", ![c].returned = calls[c].read]
  /\ Quiet

\* Prisma: verificationToken.delete, null on P2025 (record not found).
PrismaDelete(c) ==
  /\ arg.adapter = "prisma"
  /\ calls[c].pc = "called"
  /\ vtokens' = vtokens \ Matches(calls[c].params)
  /\ calls' = [calls EXCEPT ![c].pc = "returned",
                            ![c].returned = First(Matches(calls[c].params))]
  /\ Quiet

\* Dgraph: the deleteVerificationToken mutation, null when it deleted nothing.
DgraphDelete(c) ==
  /\ arg.adapter = "dgraph"
  /\ calls[c].pc = "called"
  /\ vtokens' = vtokens \ Matches(calls[c].params)
  /\ calls' = [calls EXCEPT ![c].pc = "returned",
                            ![c].returned = First(Matches(calls[c].params))]
  /\ Quiet

NextCalls ==
  \E c \in Callers :
    \/ DrizzleSelect(c)
    \/ DrizzleDelete(c)
    \/ FaunaGet(c)
    \/ FaunaDelete(c)
    \/ PrismaDelete(c)
    \/ DgraphDelete(c)

SpecCalls == InitCalls /\ [][NextCalls]_vars

\* ------------------------------------------------------------- properties
\* An exchange with Auth itself is on display (not a call of the wrapper).
Direct == ~Idle /\ mw = MwIdle
Wrapped == ~Idle /\ mw # MwIdle

FxDid(label) == Did(fx, label)
SetsSession(cookies) ==
  \E i \in DOMAIN cookies : cookies[i].name = SessionCookieName /\ ~cookies[i].clear
ClearsSession(cookies) ==
  \E i \in DOMAIN cookies : cookies[i].name = SessionCookieName /\ cookies[i].clear

\* The request passed the CSRF check, or the check is switched off for it.
Verified(r) == r.skipCSRFCheck \/ r.csrfOk
GatedPost(r) ==
  \/ r.action \in {"session", "authorized", "logout"}
  \/ r.action = "callback" /\ r.ptype = "credentials"

C1_Step ==
  (Idle /\ ~Idle' /\ mw' = MwIdle /\ req'.method = "POST") =>
    /\ (GatedPost(req') /\ ~Verified(req')) =>
         /\ resp'.error = "MissingCSRF"
         /\ resp'.handler = "none"
         /\ resp'.cookies = <<>>
         /\ fx' = <<>>
         /\ UNCHANGED <<sessions, vtokens, dbUsers, nextId, emails>>
    /\ (GatedPost(req') /\ Verified(req')) => resp'.error # "MissingCSRF"
    /\ (resp'.handler # "none" /\ ~Verified(req')) =>
         (req'.action = "callback" /\ req'.ptype # "credentials")

\* C1: a POST of session, authorized, logout or of the callback of a
\* credentials provider reaches its handler only when the CSRF token is
\* verified; unverified, it fails with MissingCSRF and no cookie, no adapter
\* record and no event has changed. The only handlers a POST reaches without a
\* verified token are the callbacks of the other provider types.
C1_CsrfGate == [][C1_Step]_vars

C1_Witness ==
  /\ Direct
  /\ req.method = "POST" /\ req.action = "logout" /\ req.tok # NoTok
  /\ ~Verified(req)
  /\ resp.error = "MissingCSRF"

NoSignIn ==
  /\ ~SetsSession(resp.cookies)
  /\ ~FxDid("handleLoginOrRegister")
  /\ ~FxDid("events.authorized")

\* C2: in the OAuth, email and credentials callbacks, callbacks.authorized
\* returning false ends in AuthorizedCallbackError and returning a URL
\* redirects to what callbacks.redirect makes of it; neither issues a session
\* cookie, calls handleLoginOrRegister or emits events.authorized.
C2_AuthorizedDecides ==
  (/\ Direct
   /\ req.action = "callback"
   /\ req.ptype \in {"oauth", "email", "credentials"}
   /\ FxDid("callbacks.authorized")) =>
    /\ req.cbAuthorized = "false" => (resp.error = "AuthorizedCallbackError" /\ NoSignIn)
    /\ req.cbAuthorized = "/wrong" => (resp.redirect = "http://a/wrong" /\ NoSignIn)

Replay == ~Idle /\ req.action = "session" /\ ended.tok # NoTok /\ req.tok = ended.tok

BrowserGetSession ==
  /\ Direct
  /\ req.browser
  /\ req.method = "GET" /\ req.action = "session"
  /\ req.cbJwt = "token"

C6_ActionsServed ==
  Direct =>
    IF req.action \in AuthAction /\ req.method \in DocumentedMethods(req.action)
    THEN resp.error \notin {"UnknownAction", "TypeError"}
    ELSE resp.error = "UnknownAction"

\* C7: a session request without a session token gets a null body and the
\* cookies that were passed in, and no jwt decode, adapter call, callback or
\* event takes place.
C7_NoTokenSession ==
  (~Idle /\ resp.handler = "session" /\ req.tok = NoTok) =>
    /\ resp.body = NullBody
    /\ resp.status = 200
    /\ resp.cookies = req.initCookies
    /\ fx = <<>>

C7_Witness ==
  /\ Direct
  /\ resp.handler = "session"
  /\ req.tok = NoTok
  /\ req.initCookies = <<CsrfCookie>>
  /\ resp.cookies = <<CsrfCookie>>

\* An e-mail sign-in started by POST that got past the CSRF check.
EmailSignIn(r) ==
  /\ r.method = "POST" /\ r.action = "authorized" /\ r.ptype = "email"
  /\ Verified(r)
  /\ r.qEmail # ""

C8_Step ==
  (Idle /\ ~Idle' /\ mw' = MwIdle /\ EmailSignIn(req')) =>
    /\ req'.cbSignin \in {"false", "throw"} =>
         /\ resp'.redirect = "http://a/auth/error?error=AuthorizedCallbackError"
         /\ UNCHANGED <<vtokens, emails>>
         /\ ~Did(fx', "provider.sendVerificationRequest")
         /\ ~Did(fx', "adapter.createVerificationToken")
    /\ req'.cbSignin = "/wrong" =>
         /\ resp'.redirect = "http://a/wrong"
         /\ Did(fx', "callbacks.redirect")
         /\ UNCHANGED <<vtokens, emails>>
         /\ ~Did(fx', "provider.sendVerificationRequest")
         /\ ~Did(fx', "adapter.createVerificationToken")
    /\ req'.cbSignin = "http://b/wrong" =>
         /\ resp'.redirect = "http://a"
         /\ UNCHANGED <<vtokens, emails>>

C9_SessionCookiesKept ==
  (Wrapped /\ ~mw.thrown) =>
    \A i \in DOMAIN resp.cookies :
      Cardinality({j \in DOMAIN mw.cookies : mw.cookies[j] = resp.cookies[i]}) = 1

\* C10: when callbacks.authorized returns false or undefined and no handler
\* is wrapped, the wrapper redirects to the login page (pages.authorized,
\* else basePath/login) with callbackUrl set to the URL of the request,
\* unless the request is for the login page, which passes through.
C10_LoginRedirect ==
  (Wrapped /\ mw.call.authorized \in {"false", "undefined"} /\ ~mw.call.wrapped) =>
    LET page == IF mw.call.pagesAuthorized = "" THEN "/auth/login"
                ELSE mw.call.pagesAuthorized
    IN /\ ~mw.thrown
       /\ IF mw.call.path = page
          THEN mw.status = 200 /\ mw.location = NoUrl
          ELSE /\ mw.status = 307
               /\ mw.location.pathname = page
               /\ mw.location.callbackUrl = "http://a" \o mw.call.path \o mw.call.search
               /\ mw.location.pathname # mw.call.path

C10_Witness ==
  /\ Wrapped
  /\ mw.call.authorized = "false" /\ ~mw.call.wrapped
  /\ mw.call.path = "/dashboard" /\ mw.call.search = "?x=1"
  /\ mw.status = 307
  /\ mw.location.callbackUrl = "http://a/dashboard?x=1"

\* C11: parseActionAndProviderId(path, basePath) returns (action, providerId) exactly
\* when path is basePath followed by a supported action and at most one provider-id
\* segment; for every other path it throws UnknownAction with the message
\* "Cannot parse action at <path>". The cases of the url-parsing test come out as the
\* test expects.
C11_ParseActionAndProviderId ==
  result # NoArg =>
    LET p == arg.pathname
        b == arg.base
        wellFormed ==
          \E a \in actions :
            \/ p = b \o <<a>>
            \/ \E n \in 1..Len(p) : p = b \o <<a, p[n]>>
    IN /\ IF wellFormed
          THEN /\ result.ok
               /\ p = b \o <<result.action>>
                       \o (IF result.providerId = NoProviderId THEN <<>>
                           ELSE <<result.providerId>>)
          ELSE /\ ~result.ok
               /\ result.error = "UnknownAction"
               /\ result.message = <<"Cannot parse action at", p>>
       /\ \A c \in UrlParsingTest :
            (c.pathname = p /\ c.base = b) =>
              /\ result.ok = c.ok
              /\ result.action = c.action
              /\ result.providerId = c.providerId

\* A path with a provider id has been parsed, and one with a repeated base path rejected.
C11_Witness ==
  /\ arg = [pathname |-> <<"api", "auth", "authorized", "github">>, base |-> <<"api", "auth">>]
  /\ result # NoArg
  /\ result.ok
  /\ result.action = "authorized"
  /\ result.providerId = "github"

\* C12: with CSRF checking disabled through skipCSRFCheck, GET csrf answers 404 with no
\* token in the body and adds a cookie that expires the CSRF-token cookie to the
\* cookies it was given; otherwise it answers with the CSRF token as JSON and the
\* cookies it was given, unchanged.
C12_CsrfEndpoint ==
  (Direct /\ req.method = "GET" /\ req.action = "csrf") =>
    IF req.skipCSRFCheck
    THEN /\ resp.status = 404
         /\ resp.body = NullBody
         /\ Len(resp.cookies) = Len(req.initCookies) + 1
         /\ SubSeq(resp.cookies, 1, Len(req.initCookies)) = req.initCookies
         /\ LET c == resp.cookies[Len(resp.cookies)]
            IN c.name = CsrfCookieName /\ c.tok = NoTok /\ c.clear /\ c.expires = 0
    ELSE /\ resp.status = 200
         /\ resp.error = ""
         /\ resp.body = [k |-> "csrfToken"]
         /\ resp.cookies = req.initCookies

\* GET csrf was answered with checking disabled and a CSRF cookie among those given.
C12_Witness ==
  /\ Direct
  /\ req.method = "GET"
  /\ req.action = "csrf"
  /\ req.skipCSRFCheck
  /\ req.initCookies = <<CsrfCookie>>
  /\ resp.status = 404

\* Configurations that differ only in what stays on the server get the same response.
ClientSafe ==
  result # NoArg =>
    ((Len(arg.a) = Len(arg.b) /\ \A i \in 1..Len(arg.a) : arg.a[i].id = arg.b[i].id)
       => result.a = result.b)

\* The response of each configuration has one entry per provider, keyed by its id.
OneEntryEach ==
  result # NoArg =>
    \A x \in {"a", "b"} : DOMAIN result[x] = {arg[x][i].id : i \in 1..Len(arg[x])}

\* C13: GET providers returns one entry per configured provider, keyed by its id,
\* holding only the id, name, type, sign-in URL and callback URL of the provider,
\* each defined; configurations that differ only in provider secrets or other
\* provider options get identical responses.
C13_ProvidersPublic ==
  /\ ClientSafe
  /\ OneEntryEach
  /\ result # NoArg =>
       \A x \in {"a", "b"} : \A i \in DOMAIN result[x] :
         /\ DOMAIN result[x][i] = {"id", "name", "type", "signinUrl", "callbackUrl"}
         /\ result[x][i].id = i
         /\ result[x][i].signinUrl = SigninUrl(i)
         /\ result[x][i].callbackUrl = ProviderCallbackUrl(i)

\* A GET callback of the e-mail provider.
EmailCallback(r) == r.method = "GET" /\ r.action = "callback" /\ r.ptype = "email"

\* The stored tokens that the token and e-mail address of request r name.
Invites(r) == {v \in vtokens : v.identifier = r.qEmail /\ v.token = CreateHash(r.qToken)}

C14_Step ==
  /\ \A v \in vtokens' \ vtokens : v.token.sha256 > nextId
  /\ (Idle /\ ~Idle' /\ mw' = MwIdle /\ EmailCallback(req')) =>
       IF req'.qToken = 0 \/ req'.qEmail = ""
       THEN /\ resp'.error = "CallbackRouteError"
            /\ fx' = <<>>
            /\ ~SetsSession(resp'.cookies)
            /\ UNCHANGED <<sessions, vtokens, dbUsers, nextId>>
       ELSE /\ fx'[1] = "adapter.useVerificationToken"
            /\ \A i \in 2..Len(fx') : fx'[i] # "adapter.useVerificationToken"
            /\ vtokens' = vtokens \ Invites(req')
            /\ (Invites(req') = {} \/ \E v \in Invites(req') : v.expires < now) =>
                 /\ resp'.error = "Verification"
                 /\ fx' = <<"adapter.useVerificationToken">>
                 /\ ~SetsSession(resp'.cookies)
                 /\ UNCHANGED <<sessions, dbUsers, nextId>>
            /\ SetsSession(resp'.cookies) =>
                 /\ Invites(req') # {}
                 /\ \A v \in Invites(req') : v.expires >= now

\* C14: the e-mail callback consumes the verification token through
\* adapter.useVerificationToken before any user lookup or session creation; it
\* rejects the sign-in with a Verification error when no token is found or the one
\* found has expired; a token is never stored again once consumed, so an e-mailed
\* token yields a session at most once; a request without token or e-mail address
\* is rejected before the adapter is touched.
C14_EmailTokenOnce == [][C14_Step]_vars

\* A token was consumed for a session, and the same link opened again was rejected.
C14_Witness ==
  /\ Direct
  /\ EmailCallback(req)
  /\ req.qToken \in {e.token : e \in emails}
  /\ resp.error = "Verification"
  /\ now = 0
  /\ (sessions # {} \/ jar.tok # NoTok)

\* An expired token was rejected.
C14_ExpiredRejected ==
  /\ Direct
  /\ EmailCallback(req)
  /\ req.qToken \in {e.token : e \in emails}
  /\ resp.error = "Verification"
  /\ sessions = {}
  /\ jar.tok = NoTok
  /\ now > EmailMaxAge

\* Two calls for the same identifier and token have both returned.
SameTokenReturned(c, d) ==
  /\ c # d
  /\ calls[c].params = calls[d].params
  /\ calls[c].pc = "returned"
  /\ calls[d].pc = "returned"

\* C15: of the concurrent useVerificationToken calls for one identifier and token
\* against one store, at most one returns the token and the others return null,
\* with the Drizzle MySQL, Fauna, Prisma and Dgraph adapters alike.
C15_UsedOnce ==
  \A c, d \in DOMAIN calls :
    SameTokenReturned(c, d) => (calls[c].returned = Null \/ calls[d].returned = Null)

\* The same, for the adapters that use the token in a single delete.
C15_UsedOnceSingleDelete ==
  arg \in [adapter : {"prisma", "dgraph"}] =>
    \A c, d \in DOMAIN calls :
      SameTokenReturned(c, d) => (calls[c].returned = Null \/ calls[d].returned = Null)

====
